---- MODULE Spec2Model ----
(***************************************************************************)
(* A model of the XBRL extraction engine of xblr_parser (src/parser.py):   *)
(* file discovery (find_xbrl_files), the tag resolver (get_local_name),    *)
(* the context and fact extraction loops of parse_xbrl_file, and the       *)
(* directory orchestrator XBRLParser.parse_directory.                      *)
(*                                                                         *)
(* Python strings are sequences of one-character strings, so that split,   *)
(* strip, lower, substring tests and glob matching are computed and not    *)
(* assumed.  An optional value (None or a value) is a sequence of length   *)
(* 0 or 1: None is <<>>, the value v is <<v>>.                             *)
(***************************************************************************)
EXTENDS Integers, Sequences, FiniteSets, TLC

\* ------------------------------------------------------------------ bounds

\* Largest number of entries of a directory listing (file discovery).
MaxDirEntries == 4

\* Largest number of entries of the directory that parse_directory is run on.
MaxFiles == 2

\* Largest number of children of a document's root element.
MaxElems == 3

\* ------------------------------------------------------- optional values

None == <<>>

Some(v) == <<v>>

IsNone(o) == o = <<>>

\* Python truthiness of an optional string: None and "" are falsy.
Truthy(o) == o # <<>> /\ o[1] # <<>>

\* ------------------------------------------------------ string primitives

Range(s) == {s[i] : i \in 1..Len(s)}

\* Python: sub in s
Contains(s, sub) ==
    \E i \in 0..(Len(s) - Len(sub)) : SubSeq(s, i + 1, i + Len(sub)) = sub

\* Position of the first occurrence of character c in s, 0 when there is none.
FirstIndex(s, c) ==
    IF \E i \in 1..Len(s) : s[i] = c
    THEN CHOOSE i \in 1..Len(s) : s[i] = c /\ \A j \in 1..(i - 1) : s[j] # c
    ELSE 0

\* Position of the last occurrence of character c in s, 0 when there is none.
LastIndex(s, c) ==
    IF \E i \in 1..Len(s) : s[i] = c
    THEN CHOOSE i \in 1..Len(s) : s[i] = c /\ \A j \in (i + 1)..Len(s) : s[j] # c
    ELSE 0

\* Python: s.split(c, 1)[0] and s.split(c, 1)[1], for s containing c
SplitHead(s, c) == SubSeq(s, 1, FirstIndex(s, c) - 1)

SplitTail(s, c) == SubSeq(s, FirstIndex(s, c) + 1, Len(s))

Whitespace == {" ", "\t", "\n"}

\* Python: s.strip()
Strip(s) ==
    LET keep == {i \in 1..Len(s) : s[i] \notin Whitespace}
    IN  IF keep = {} THEN <<>>
        ELSE SubSeq(s, CHOOSE i \in keep : \A j \in keep : i <= j,
                       CHOOSE i \in keep : \A j \in keep : j <= i)

\* Python: s.strip(c) for a single character c
StripChar(s, c) ==
    LET keep == {i \in 1..Len(s) : s[i] # c}
    IN  IF keep = {} THEN <<>>
        ELSE SubSeq(s, CHOOSE i \in keep : \A j \in keep : i <= j,
                       CHOOSE i \in keep : \A j \in keep : j <= i)

UpperLetters ==
    <<"A","B","C","D","E","F","G","H","I","J","K","L","M",
      "N","O","P","Q","R","S","T","U","V","W","X","Y","Z">>

LowerLetters ==
    <<"a","b","c","d","e","f","g","h","i","j","k","l","m",
      "n","o","p","q","r","s","t","u","v","w","x","y","z">>

LowerChar(c) ==
    IF \E i \in 1..Len(UpperLetters) : UpperLetters[i] = c
    THEN LowerLetters[CHOOSE i \in 1..Len(UpperLetters) : UpperLetters[i] = c]
    ELSE c

\* Python: s.lower()
Lower(s) == [i \in 1..Len(s) |-> LowerChar(s[i])]

Digits == {"0","1","2","3","4","5","6","7","8","9"}

\* All sequences over S of length at most n.
RECURSIVE SeqsUpTo(_, _)
SeqsUpTo(S, n) ==
    IF n = 0 THEN {<<>>}
    ELSE LET shorter == SeqsUpTo(S, n - 1)
         IN  shorter \cup {Append(s, x) : s \in {t \in shorter : Len(t) = n - 1}, x \in S}

NoRepeat(s) == \A i, j \in 1..Len(s) : i # j => s[i] # s[j]

\* ------------------------------------------------------- file discovery

\* A glob pattern is a sequence of tokens: "*" (any run of characters),
\* "[0-9]" (one digit) or a literal character.
PatXbrl == <<"*", ".", "x", "b", "r", "l">>

PatDigitXml == <<"*", "[0-9]", ".", "x", "m", "l">>

\* fnmatch.fnmatchcase: the whole name against the whole pattern.
RECURSIVE FnMatch(_, _)
FnMatch(name, pat) ==
    IF pat = <<>> THEN name = <<>>
    ELSE IF Head(pat) = "*"
         THEN \E k \in 0..Len(name) : FnMatch(SubSeq(name, k + 1, Len(name)), Tail(pat))
    ELSE IF name = <<>> THEN FALSE
    ELSE IF Head(pat) = "[0-9]"
         THEN Head(name) \in Digits /\ FnMatch(Tail(name), Tail(pat))
    ELSE Head(name) = Head(pat) /\ FnMatch(Tail(name), Tail(pat))

\* glob._ishidden
IsHidden(name) == name # <<>> /\ name[1] = "."

\* os.path.join(directory, name)
PathJoin(directory, name) == directory \o <<"/">> \o name

\* os.path.basename(path)
Basename(path) == SubSeq(path, LastIndex(path, "/") + 1, Len(path))

\* glob.glob(os.path.join(directory, pattern)): the entries of the listing, in
\* listing order, that are not hidden and match, each joined to the directory.
Glob(directory, listing, pat) ==
    LET hit(n) == ~IsHidden(n) /\ FnMatch(n, pat)
        sel == SelectSeq(listing, hit)
    IN  [i \in 1..Len(sel) |-> PathJoin(directory, sel[i])]

ExcludedSubstrings ==
    << <<"_","l","a","b">>, <<"l","a","b","e","l">>, <<"d","i","m","_">>, <<"d","e","f">> >>

\* The name a candidate is filtered by: the lower-cased base name.  The
\* alternative lower-cases the whole path.
FilterName_WholePath(f) == Lower(f)

FilterName(f) == Lower(Basename(f))

\* The filter of find_xbrl_files: a known non-instance file.
IsNonInstance(f) ==
    \E k \in 1..Len(ExcludedSubstrings) : Contains(FilterName(f), ExcludedSubstrings[k])

FindXbrlFiles(directory, listing) ==
    LET all_files == Glob(directory, listing, PatXbrl) \o Glob(directory, listing, PatDigitXml)
        keep(f) == ~IsNonInstance(f)
    IN  SelectSeq(all_files, keep)

\* ----------------------------------------------------------- XML documents

\* An element tree as lxml hands it to the parser.  A node is
\*   [tag, attrib, text, children]
\* where tag is a Python value [kind, s]: kind "str" for an element (s is the
\* tag, "{uri}local" or "local"), kind "cyfunction" for a comment or processing
\* instruction (its tag is a function; s is its str()).
StrVal(s) == [kind |-> "str", s |-> s]

CyFunctionRepr == <<"<","c","y","f","u","n","c","t","i","o","n"," ","C","o","m","m","e","n","t",">">>

CyFunctionAlt == <<"<","c","y","t","h","o","n","_","f","u","n","c","t","i","o","n","_","o","r","_","m","e","t","h","o","d">>

CyFunctionPrefix == SubSeq(CyFunctionRepr, 1, 11)

CommentTag == [kind |-> "cyfunction", s |-> CyFunctionRepr]

NoAttrs == <<>>

Elem(tag, attrib, text, children) ==
    [tag |-> StrVal(tag), attrib |-> attrib, text |-> text, children |-> children]

CommentNode(text) ==
    [tag |-> CommentTag, attrib |-> NoAttrs, text |-> Some(text), children |-> <<>>]

\* "{uri}local", the tag lxml gives an element in a namespace
QTag(uri, local) == <<"{">> \o uri \o <<"}">> \o local

\* isinstance(tag, str)
IsStr(tag) == tag.kind = "str"

\* elem.get(name)
Get(elem, name) == IF name \in DOMAIN elem.attrib THEN Some(elem.attrib[name]) ELSE None

\* root.iter(): the node and its descendants in document order
RECURSIVE Iter(_)
RECURSIVE IterAll(_)
Iter(node) == <<node>> \o IterAll(node.children)

IterAll(nodes) == IF nodes = <<>> THEN <<>> ELSE Iter(Head(nodes)) \o IterAll(Tail(nodes))

\* ------------------------------------------------------------ tag resolver

\* A get_local_name that gives up on every value that is not a string
GetLocalName_NoneForNonStr(tag) ==
    IF IsStr(tag)
    THEN Some(IF Contains(tag.s, <<"}">>) THEN SplitTail(tag.s, "}") ELSE tag.s)
    ELSE None

\* get_local_name(tag): a local name, or None for a comment or a processing
\* instruction.
GetLocalName(tag) ==
    IF IsStr(tag)
    THEN Some(IF Contains(tag.s, <<"}">>) THEN SplitTail(tag.s, "}") ELSE tag.s)
    ELSE IF Contains(tag.s, CyFunctionPrefix) \/ Contains(tag.s, CyFunctionAlt)
         THEN None
         ELSE Some(tag.s)

\* ------------------------------------------------------------------- names

N_context == <<"c","o","n","t","e","x","t">>

N_period == <<"p","e","r","i","o","d">>

N_instant == <<"i","n","s","t","a","n","t">>

N_startDate == <<"s","t","a","r","t","D","a","t","e">>

N_endDate == <<"e","n","d","D","a","t","e">>

N_entity == <<"e","n","t","i","t","y">>

N_segment == <<"s","e","g","m","e","n","t">>

N_explicitMember == <<"e","x","p","l","i","c","i","t","M","e","m","b","e","r">>

N_unit == <<"u","n","i","t">>

N_schemaRef == <<"s","c","h","e","m","a","R","e","f">>

N_roleRef == <<"r","o","l","e","R","e","f">>

N_arcroleRef == <<"a","r","c","r","o","l","e","R","e","f">>

\* A list of skipped names without 'unit'
skip_names_NoUnit == <<N_context, N_schemaRef, N_roleRef, N_arcroleRef>>

\* Line 178: the local names the fact loop passes over
skip_names == <<N_context, N_unit, N_schemaRef, N_roleRef, N_arcroleRef>>

\* ------------------------------------------------------ context extractor

\* The children of a node that are elements (isinstance(child.tag, str)).
ElemChildren(node) == SelectSeq(node.children, LAMBDA c : IsStr(c.tag))

\* The element children of a node whose local name is name, in order.
ChildrenNamed(node, name) ==
    SelectSeq(ElemChildren(node), LAMBDA c : GetLocalName(c.tag) = Some(name))

\* x.text.strip() if x.text else None
TextOrNone(x) == IF Truthy(x.text) THEN Some(Strip(x.text[1])) ELSE None

\* Python: d[k] = v on a dict
DictSet(d, k, v) == [x \in (DOMAIN d) \cup {k} |-> IF x = k THEN v ELSE d[x]]

EmptyDict == <<>>

\* Lines 97-138 with the start and end dates looked at before the instant.
PeriodFields_DatesFirst(elem) ==
    LET periods == ChildrenNamed(elem, N_period)
    IN  IF periods = <<>>
        THEN [period_type |-> None]
        ELSE LET period == periods[1]
                 instants == ChildrenNamed(period, N_instant)
                 starts == ChildrenNamed(period, N_startDate)
                 ends == ChildrenNamed(period, N_endDate)
             IN  IF instants # <<>> /\ starts = <<>> /\ ends = <<>>
                 THEN [period_type |-> Some("instant"),
                       instant |-> TextOrNone(instants[1])]
                 ELSE [period_type |-> Some("duration"),
                       start_date |-> IF starts # <<>>
                                      THEN TextOrNone(starts[Len(starts)]) ELSE None,
                       end_date |-> IF ends # <<>>
                                    THEN TextOrNone(ends[Len(ends)]) ELSE None]

\* Period fields that take a context without a period child for a duration
\* without dates.
PeriodFields_NoPeriodAsDuration(elem) ==
    LET periods == ChildrenNamed(elem, N_period)
    IN  IF periods = <<>>
        THEN [period_type |-> Some("duration"), start_date |-> None, end_date |-> None]
        ELSE LET period == periods[1]
                 instants == ChildrenNamed(period, N_instant)
                 starts == ChildrenNamed(period, N_startDate)
                 ends == ChildrenNamed(period, N_endDate)
             IN  IF instants # <<>>
                 THEN [period_type |-> Some("instant"),
                       instant |-> TextOrNone(instants[1])]
                 ELSE [period_type |-> Some("duration"),
                       start_date |-> IF starts # <<>>
                                      THEN TextOrNone(starts[Len(starts)]) ELSE None,
                       end_date |-> IF ends # <<>>
                                    THEN TextOrNone(ends[Len(ends)]) ELSE None]

\* Lines 97-138: the period fields of a context element.
PeriodFields(elem) ==
    LET periods == ChildrenNamed(elem, N_period)
    IN  IF periods = <<>>
        THEN [period_type |-> None]
        ELSE LET period == periods[1]
                 instants == ChildrenNamed(period, N_instant)
                 starts == ChildrenNamed(period, N_startDate)
                 ends == ChildrenNamed(period, N_endDate)
             IN  IF instants # <<>>
                 THEN [period_type |-> Some("instant"),
                       instant |-> TextOrNone(instants[1])]
                 ELSE [period_type |-> Some("duration"),
                       start_date |-> IF starts # <<>>
                                      THEN TextOrNone(starts[Len(starts)]) ELSE None,
                       end_date |-> IF ends # <<>>
                                    THEN TextOrNone(ends[Len(ends)]) ELSE None]

\* Lines 140-153: the segment the dimensions are read from: the first segment
\* child of the last entity child that has one.
FindSegment(elem) ==
    LET entities == ChildrenNamed(elem, N_entity)
        withSeg == SelectSeq(entities, LAMBDA e : ChildrenNamed(e, N_segment) # <<>>)
    IN  IF withSeg = <<>> THEN None
        ELSE Some(ChildrenNamed(withSeg[Len(withSeg)], N_segment)[1])

\* Lines 159-166 with the dimension attribute used as the key unresolved.
AddDimension_RawName(dims, dim) ==
    LET dim_name == GetLocalName(dim.tag)[1]
        dimension == Get(dim, "dimension")
        member_value == TextOrNone(dim)
    IN  IF Contains(dim_name, N_explicitMember) /\ Truthy(dimension) /\ Truthy(member_value)
        THEN DictSet(dims, dimension[1], member_value[1])
        ELSE dims

\* Lines 159-166: one child of the segment, added to the dimensions so far.
AddDimension(dims, dim) ==
    LET dim_name == GetLocalName(dim.tag)[1]
        dimension == Get(dim, "dimension")
        member_value == TextOrNone(dim)
    IN  IF Contains(dim_name, N_explicitMember) /\ Truthy(dimension) /\ Truthy(member_value)
        THEN DictSet(dims, GetLocalName(StrVal(dimension[1]))[1], member_value[1])
        ELSE dims

RECURSIVE FoldDimensions(_, _)
FoldDimensions(dims, members) ==
    IF members = <<>> THEN dims
    ELSE FoldDimensions(AddDimension(dims, Head(members)), Tail(members))

\* Lines 155-166: the dimensions of a context element.
Dimensions(elem) ==
    LET segment == FindSegment(elem)
    IN  IF segment = None THEN EmptyDict
        ELSE FoldDimensions(EmptyDict, ElemChildren(segment[1]))

\* Lines 91-166: context_data of a context element.
ContextDataOf(elem) == PeriodFields(elem) @@ [dimensions |-> Dimensions(elem)]

\* An element the context loop stores: lines 79-89.
IsContextElem(elem) ==
    /\ IsStr(elem.tag)
    /\ GetLocalName(elem.tag) = Some(N_context)
    /\ Truthy(Get(elem, "id"))

\* Line 169 with a store that keeps the first definition of an id.
StoreContext_KeepFirst(ctxs, context_id, context_data) ==
    IF context_id \in DOMAIN ctxs THEN ctxs ELSE DictSet(ctxs, context_id, context_data)

\* Line 169: contexts[context_id] = context_data
StoreContext(ctxs, context_id, context_data) == DictSet(ctxs, context_id, context_data)

\* One iteration of the context loop, lines 77-169.
ContextLoopBody(ctxs, elem) ==
    IF IsContextElem(elem)
    THEN StoreContext(ctxs, Get(elem, "id")[1], ContextDataOf(elem))
    ELSE ctxs

\* --------------------------------------------------------- fact extractor

\* Python: d.get(key), None when the key is missing
DictGet(d, key) == IF key \in DOMAIN d THEN d[key] ELSE None

\* Line 188 without the lookup in the context map.
HasContext_NoLookup(ctxs, context_ref) == Truthy(context_ref)

\* Line 188: not (not context_ref or context_ref not in contexts)
HasContext(ctxs, context_ref) == Truthy(context_ref) /\ context_ref[1] \in DOMAIN ctxs

\* Lines 198-201: the first prefix of root.nsmap bound to the namespace, or None.
FindPrefix(nsmap, ns) ==
    LET hits == SelectSeq(nsmap, LAMBDA b : b.uri = ns)
    IN  IF hits = <<>> THEN None ELSE hits[1].prefix

\* Lines 192-210: local_name and prefixed_name of an element tag.
ResolveNames(tag, nsmap) ==
    IF Contains(tag, <<"}">>)
    THEN LET ns == StripChar(SplitHead(tag, "}"), "{")
             local_name == SplitTail(tag, "}")
             prefix == FindPrefix(nsmap, ns)
         IN  [local_name |-> local_name,
              prefixed_name |-> IF Truthy(prefix)
                                THEN prefix[1] \o <<":">> \o local_name
                                ELSE local_name]
    ELSE [local_name |-> tag, prefixed_name |-> tag]

\* Lines 224-245 with the context id read from the element's own id attribute.
MakeFact_OwnId(ctxs, elem, context_ref, names, value) ==
    LET cd == ctxs[context_ref]
        head == [concept |-> names.local_name,
                 prefixed_concept |-> names.prefixed_name,
                 value |-> value,
                 unit |-> Get(elem, "unitRef"),
                 context_id |-> IF Truthy(Get(elem, "id")) THEN Get(elem, "id")[1]
                                ELSE context_ref,
                 period_type |-> cd.period_type]
        dates == IF cd.period_type = Some("instant")
                 THEN [date |-> DictGet(cd, "instant")]
                 ELSE [start_date |-> DictGet(cd, "start_date"),
                       end_date |-> DictGet(cd, "end_date")]
    IN  head @@ dates @@ [dimensions |-> cd.dimensions]

\* A fact record that carries the three date fields whatever the period type.
MakeFact_AllDates(ctxs, elem, context_ref, names, value) ==
    LET cd == ctxs[context_ref]
    IN  [concept |-> names.local_name,
         prefixed_concept |-> names.prefixed_name,
         value |-> value,
         unit |-> Get(elem, "unitRef"),
         context_id |-> context_ref,
         period_type |-> cd.period_type,
         date |-> DictGet(cd, "instant"),
         start_date |-> DictGet(cd, "start_date"),
         end_date |-> DictGet(cd, "end_date"),
         dimensions |-> cd.dimensions]

\* Lines 224-245: the fact record of an element, from its context's data.
MakeFact(ctxs, elem, context_ref, names, value) ==
    LET cd == ctxs[context_ref]
        head == [concept |-> names.local_name,
                 prefixed_concept |-> names.prefixed_name,
                 value |-> value,
                 unit |-> Get(elem, "unitRef"),
                 context_id |-> context_ref,
                 period_type |-> cd.period_type]
        dates == IF cd.period_type = Some("instant")
                 THEN [date |-> DictGet(cd, "instant")]
                 ELSE [start_date |-> DictGet(cd, "start_date"),
                       end_date |-> DictGet(cd, "end_date")]
    IN  head @@ dates @@ [dimensions |-> cd.dimensions]

\* One iteration of the fact loop, lines 181-247: the element is skipped, yields
\* a fact, or raises (contexts[context_ref] of a missing key is a KeyError).
FactLoopBody(ctxs, elem, nsmap) ==
    IF ~IsStr(elem.tag) THEN [out |-> "skip"]
    ELSE LET context_ref == Get(elem, "contextRef")
         IN  IF ~HasContext(ctxs, context_ref) THEN [out |-> "skip"]
             ELSE LET names == ResolveNames(elem.tag.s, nsmap)
                  IN  IF names.local_name \in Range(skip_names) THEN [out |-> "skip"]
                      ELSE IF elem.text = None THEN [out |-> "skip"]
                      ELSE IF context_ref[1] \notin DOMAIN ctxs
                           THEN [out |-> "raise", exc |-> "KeyError"]
                      ELSE [out |-> "fact",
                            fact |-> MakeFact(ctxs, elem, context_ref[1], names,
                                              Strip(elem.text[1]))]

\* Line 253, except Exception: every exception a document can raise is caught.
\* The alternative catches only the XML syntax error.
Catches_OnlySyntaxError(exc) == exc = "XMLSyntaxError"

Catches(exc) ==
    exc \in {"XMLSyntaxError", "OSError", "AttributeError", "KeyError", "MemoryError",
             "RuntimeError"}

\* Line 329: all_facts.extend(facts), and an extend that puts the new facts first.
Extend_Prepend(all, new) == new \o all

Extend(all, new) == all \o new

\* ------------------------------------------------------- input documents

U_xbrli == <<"h","x">>

U_gaap == <<"h","g">>

U_other == <<"h","o">>

P_xbrli == <<"x","b","r","l","i">>

P_gaap == <<"u","s","-","g","a","a","p">>

\* root.nsmap: prefix (None for the default namespace) and URI, in dict order
StdNsmap == << [prefix |-> Some(P_xbrli), uri |-> U_xbrli],
               [prefix |-> Some(P_gaap), uri |-> U_gaap] >>

N_xbrl == <<"x","b","r","l">>

N_Assets == <<"A","s","s","e","t","s">>

N_Note == <<"N","o","t","e">>

N_typedMember == <<"t","y","p","e","d","M","e","m","b","e","r">>

Id_C1 == <<"C","1">>

Id_C2 == <<"C","2">>

Id_C9 == <<"C","9">>

USD == <<"U","S","D">>

T_1000 == <<"1","0","0","0">>

T_7 == <<"7">>

T_7padded == <<" ","7","\n">>

T_blank == <<" "," ">>

D_2023 == <<"2","0","2","3","-","1","2","-","3","1">>

D_start == <<"2","0","2","3","-","0","1","-","0","1">>

D_2022 == <<"2","0","2","2","-","1","2","-","3","1">>

D_2022padded == <<"\n"," ">> \o D_2022 \o <<" ">>

Axis == <<"S","e","g","A","x","i","s">>

AxisQ == <<"s","e","g",":">> \o Axis

AxisBraced == <<"{">> \o U_other \o <<"}">> \o Axis

Axis2 == <<"G","e","o","A","x","i","s">>

M_a == <<"s","e","g",":","A">>

M_b == <<"s","e","g",":","B">>

\* A document: etree.parse gives a tree (ok), or raises exc.
GoodDoc(children) ==
    [ok |-> TRUE, root |-> Elem(QTag(U_xbrli, N_xbrl), NoAttrs, None, children),
     nsmap |-> StdNsmap]

BadDoc(exc) == [ok |-> FALSE, exc |-> exc]

X(local, attrib, text, children) == Elem(QTag(U_xbrli, local), attrib, text, children)

Ctx(attrib, children) == X(N_context, attrib, None, children)

WithId(id) == [id |-> id]

Leaf(local, text) == X(local, NoAttrs, text, <<>>)

Period(children) == X(N_period, NoAttrs, None, children)

SegmentOf(members) == X(N_entity, NoAttrs, None, <<X(N_segment, NoAttrs, None, members)>>)

Member(attrib, text) == X(N_explicitMember, attrib, text, <<>>)

WithDim(d) == [dimension |-> d]

FactElem(tag, attrib, text) == Elem(tag, attrib, text, <<>>)

\* Elements for the fact loop's skip rules.
CtxInstantC1 == Ctx(WithId(Id_C1), <<Period(<<Leaf(N_instant, Some(D_2023))>>)>>)

CtxDurationC2 ==
    Ctx(WithId(Id_C2), <<Period(<<Leaf(N_startDate, Some(D_start)), Leaf(N_endDate, Some(D_2023))>>)>>)

CtxEmptyId == Ctx(WithId(<<>>), <<Period(<<Leaf(N_instant, Some(D_2022))>>)>>)

CtxNoId == Ctx(NoAttrs, <<Period(<<Leaf(N_instant, Some(D_2022))>>)>>)

F_Assets == FactElem(QTag(U_gaap, N_Assets), [contextRef |-> Id_C1, unitRef |-> USD], Some(T_1000))

F_Padded == FactElem(N_Note, [contextRef |-> Id_C2, id |-> <<"f">>], Some(T_7padded))

F_Dangling == FactElem(QTag(U_gaap, N_Assets), [contextRef |-> Id_C9], Some(T_7))

F_NoRef == FactElem(QTag(U_gaap, N_Assets), [unitRef |-> USD], Some(T_7))

F_EmptyRef == FactElem(QTag(U_gaap, N_Assets), [contextRef |-> <<>>], Some(T_7))

F_Blank == FactElem(QTag(U_gaap, N_Assets), [contextRef |-> Id_C1], Some(T_blank))

F_NoText == FactElem(QTag(U_gaap, N_Assets), [contextRef |-> Id_C1], None)

F_Unit == FactElem(QTag(U_xbrli, N_unit), [contextRef |-> Id_C1], Some(USD))

PoolBasic ==
    {CtxInstantC1, CtxDurationC2, CtxEmptyId, CtxNoId, F_Assets, F_Padded, F_Dangling,
     F_NoRef, F_EmptyRef, F_Blank, F_NoText, F_Unit, CommentNode(T_7)}

ParseErrors == {BadDoc("XMLSyntaxError"), BadDoc("OSError")}

DocsOver(pool) == {GoodDoc(s) : s \in SeqsUpTo(pool, MaxElems)} \cup ParseErrors

\* Context elements for the period rules; they share one id.
DimsA == <<SegmentOf(<<Member(WithDim(AxisQ), Some(M_a))>>)>>

DimsB == <<SegmentOf(<<Member(WithDim(Axis2), Some(M_b))>>)>>

P_Instant == Ctx(WithId(Id_C1), <<Period(<<Leaf(N_instant, Some(D_2023))>>)>> \o DimsA)

P_InstantEmpty == Ctx(WithId(Id_C1), <<Period(<<Leaf(N_instant, None)>>)>>)

P_StartInstant ==
    Ctx(WithId(Id_C1),
        <<Period(<<Leaf(N_startDate, Some(D_start)), Leaf(N_instant, Some(D_2022padded))>>)>>)

P_Duration ==
    Ctx(WithId(Id_C1),
        <<Period(<<Leaf(N_startDate, Some(D_start)), Leaf(N_endDate, Some(D_2023))>>)>>)

P_EndOnly == Ctx(WithId(Id_C1), DimsB \o <<Period(<<Leaf(N_endDate, Some(D_2022padded))>>)>>)

P_NoPeriod == Ctx(WithId(Id_C1), <<>>)

P_EmptyPeriod == Ctx(WithId(Id_C1), <<Period(<<>>)>>)

P_TwoPeriods ==
    Ctx(WithId(Id_C1),
        <<Period(<<Leaf(N_endDate, Some(D_2023))>>), Period(<<Leaf(N_instant, Some(D_2022))>>)>>)

P_InstantThenDates ==
    Ctx(WithId(Id_C1),
        <<Period(<<Leaf(N_instant, Some(D_2022)), Leaf(N_startDate, Some(D_start)),
                   Leaf(N_endDate, Some(D_2023))>>)>>)

PoolPeriod ==
    {P_Instant, P_InstantEmpty, P_StartInstant, P_Duration, P_EndOnly, P_NoPeriod,
     P_EmptyPeriod, P_TwoPeriods, F_Assets,
     P_InstantThenDates}

\* Context elements for the dimension rules; they share one id.
SegCtx(children) == Ctx(WithId(Id_C1), children)

Seg(members) == X(N_segment, NoAttrs, None, members)

Entity(children) == X(N_entity, NoAttrs, None, children)

D_One == SegCtx(DimsA)

D_BracedPadded == SegCtx(<<SegmentOf(<<Member(WithDim(AxisBraced), Some(<<" ">> \o M_b \o <<"\n">>))>>)>>)

D_Unusable ==
    SegCtx(<<SegmentOf(<<Member(NoAttrs, Some(M_a)),
                         Member(WithDim(Axis2), None),
                         Member(WithDim(AxisQ), Some(T_blank)),
                         Member(WithDim(<<>>), Some(M_a)),
                         X(N_typedMember, WithDim(Axis2), Some(M_b), <<>>)>>)>>)

D_SameDimTwice ==
    SegCtx(<<SegmentOf(<<Member(WithDim(AxisQ), Some(M_a)), Member(WithDim(AxisQ), Some(M_b))>>)>>)

D_TwoDims ==
    SegCtx(<<SegmentOf(<<Member(WithDim(AxisQ), Some(M_a)), Member(WithDim(Axis2), Some(M_b))>>)>>)

D_TwoSegments ==
    SegCtx(<<Entity(<<Seg(<<Member(WithDim(AxisQ), Some(M_a))>>),
                      Seg(<<Member(WithDim(Axis2), Some(M_b))>>)>>)>>)

D_TwoEntities == SegCtx(DimsA \o DimsB)

D_Nested == SegCtx(<<SegmentOf(<<X(N_Note, NoAttrs, None, <<Member(WithDim(AxisQ), Some(M_a))>>)>>)>>)

D_NoEntity == SegCtx(<<Seg(<<Member(WithDim(AxisQ), Some(M_a))>>)>>)

PoolDim ==
    {D_One, D_BracedPadded, D_Unusable, D_SameDimTwice, D_TwoDims, D_TwoSegments,
     D_TwoEntities, D_Nested, D_NoEntity, F_Assets}

\* Documents of the files of a directory batch.
DocAssets == GoodDoc(<<CtxInstantC1, F_Assets>>)

DocTwoFacts == GoodDoc(<<F_Padded, CtxDurationC2, F_Dangling, F_Padded>>)

DocRefOnly == GoodDoc(<<F_Assets>>)

\* A file that defines C1 and C2, and a file that defines C1 in its own way
\* and refers to C1 and to C2.
DocBothContexts == GoodDoc(<<CtxInstantC1, CtxDurationC2, F_Assets>>)

DocOwnC1 == GoodDoc(<<P_Duration, F_Assets, F_Padded>>)

DirDocs == {DocAssets, DocTwoFacts, DocRefOnly, DocBothContexts, DocOwnC1} \cup ParseErrors

\* The directory given to find_xbrl_files and parse_directory.
DirPath == <<"d","e","f">>

FN_a_xbrl == <<"a",".","x","b","r","l">>

FN_b1_xml == <<"b","1",".","x","m","l">>

FN_c_def2_xml == <<"c","_","d","e","f","2",".","x","m","l">>

DirNames == {FN_a_xbrl, FN_b1_xml, FN_c_def2_xml}

\* A directory listing (os.listdir order): distinct names, at most n of them.
ListingsOver(names, n) == {l \in SeqsUpTo(names, n) : NoRepeat(l)}

\* ------------------------------------------------------------------- state

VARIABLES
    entry,       \* the function called: "find_xbrl_files", "parse_xbrl_file", "parse_directory", ...
    arg,         \* the argument of a call of a pure function (None for the other calls)
    pc,          \* the position in the code
    listing,     \* the entries of the directory, in listing order
    xbrl_files,  \* parse_directory: the result of find_files
    file_i,      \* parse_directory: how many files the loop has taken
    doc,         \* parse_xbrl_file: what etree.parse gives for file_path
    elems,       \* parse_xbrl_file: root.iter()
    elem_i,      \* parse_xbrl_file: the position of the running loop in elems
    contexts,    \* parse_xbrl_file: the context map
    facts,       \* parse_xbrl_file: the facts so far
    fact_src,    \* for each fact, the position in elems of the element it came from
    dim_obj,     \* for each fact, the dictionary object its 'dimensions' field refers to
    result,      \* the value parse_xbrl_file returned
    all_facts,   \* parse_directory: the combined facts
    results,     \* the values parse_file returned, one per call
    file_path,   \* parse_directory: the file the loop is at
    calls,       \* the calls of parse_file: the path given and the document read
    ret,         \* the value the called function returned (None until it returns)
    raised       \* TRUE when the called function ended by an exception

vars == <<entry, arg, pc, listing, xbrl_files, file_i, doc, elems, elem_i, contexts, facts,
          fact_src, dim_obj, result, all_facts, results, file_path, calls, ret, raised>>

NoDoc == BadDoc("none")

InitCommon ==
    /\ xbrl_files = <<>>
    /\ file_i = 0
    /\ elems = <<>>
    /\ elem_i = 0
    /\ contexts = EmptyDict
    /\ facts = <<>>
    /\ fact_src = <<>>
    /\ dim_obj = <<>>
    /\ result = <<>>
    /\ all_facts = <<>>
    /\ results = <<>>
    /\ file_path = <<>>
    /\ calls = <<>>
    /\ ret = None
    /\ raised = FALSE

\* parse_directory(directory)
Init ==
    /\ entry = "parse_directory"
    /\ pc = "pd_find"
    /\ arg = None
    /\ listing \in ListingsOver(DirNames, MaxFiles)
    /\ doc = NoDoc
    /\ InitCommon

\* parse_xbrl_file(file_path) on a document over a pool of elements
InitParseOver(pool) ==
    /\ entry = "parse_xbrl_file"
    /\ pc = "pf_parse"
    /\ arg = None
    /\ listing = <<>>
    /\ doc \in DocsOver(pool)
    /\ InitCommon

InitParse == InitParseOver(PoolBasic)

\* ------------------------------------------------------- parse_xbrl_file

\* An exception inside the try block: the handler of line 253, or out of the call.
\* A map of contexts kept across calls, as a module-level dictionary would be
NewContexts_Shared(previous) == previous

\* Line 74: contexts = {}, a dictionary local to the call; whatever an earlier
\* call built is not reachable from it
NewContexts(previous) == EmptyDict

\* Line 245: fact['dimensions'] = contexts[context_ref].get('dimensions', {}).
\* The key is always present, so the field refers to the dictionary stored in
\* the context itself; that object is named by the id of its context.
DimensionsObject(context_ref) == context_ref

\* A fact loop that knows, at an element, only the contexts defined before it
\* in the document: what a single pass over the document would give.
VisibleContexts_Before(ctxs, es, i) ==
    LET at(id) == {j \in 1..(i - 1) : IsContextElem(es[j]) /\ es[j].attrib.id = id}
        ids == {es[j].attrib.id : j \in {x \in 1..(i - 1) : IsContextElem(es[x])}}
    IN  [id \in ids |-> ContextDataOf(es[CHOOSE j \in at(id) : \A l \in at(id) : l <= j])]

\* Lines 77-169 and 181-189: the context loop has ended before the fact loop
\* starts, so every iteration of the fact loop looks in the whole map.
VisibleContexts(ctxs, es, i) == ctxs

\* A new fact put in front of the list
AppendFact_Front(fs, fact) == <<fact>> \o fs

\* Line 247: facts.append(fact)
AppendFact(fs, fact) == Append(fs, fact)

\* A handler returning what the fact loop had accumulated
ExceptResult_Partial(fs) == fs

\* Line 258: return [], whatever facts holds at the time
ExceptResult(fs) == <<>>

Raise(exc) ==
    IF Catches(exc)
    THEN pc' = "pf_except" /\ raised' = raised
    ELSE pc' = "done" /\ raised' = TRUE

\* Lines 65-74: a call starts with no facts of its own; etree.parse, getroot,
\* contexts = {}
ParseTree ==
    /\ pc = "pf_parse"
    /\ IF doc.ok
       THEN /\ elems' = Iter(doc.root)
            /\ contexts' = NewContexts(contexts)
            /\ elem_i' = 1
            /\ pc' = "pf_contexts"
            /\ raised' = raised
       ELSE /\ Raise(doc.exc)
            /\ UNCHANGED <<elems, contexts, elem_i>>
    /\ facts' = <<>>
    /\ fact_src' = <<>>
    /\ dim_obj' = <<>>
    /\ UNCHANGED <<entry, arg, listing, xbrl_files, file_i, doc, result, all_facts, results,
                   file_path, calls, ret>>

\* Lines 77-169: one element of the context loop
ContextStep ==
    /\ pc = "pf_contexts"
    /\ elem_i <= Len(elems)
    /\ contexts' = ContextLoopBody(contexts, elems[elem_i])
    /\ elem_i' = elem_i + 1
    /\ UNCHANGED <<entry, arg, pc, listing, xbrl_files, file_i, doc, elems, facts, fact_src, dim_obj,
                   result, all_facts, results, file_path, calls, ret, raised>>

\* Lines 174-178: the context loop is over, facts = []
ContextsDone ==
    /\ pc = "pf_contexts"
    /\ elem_i > Len(elems)
    /\ facts' = <<>>
    /\ fact_src' = <<>>
    /\ dim_obj' = <<>>
    /\ elem_i' = 1
    /\ pc' = "pf_facts"
    /\ UNCHANGED <<entry, arg, listing, xbrl_files, file_i, doc, elems, contexts, result,
                   all_facts, results, file_path, calls, ret, raised>>

\* Lines 181-247: one element of the fact loop
FactStep ==
    /\ pc = "pf_facts"
    /\ elem_i <= Len(elems)
    /\ LET r == FactLoopBody(VisibleContexts(contexts, elems, elem_i), elems[elem_i], doc.nsmap)
       IN  IF r.out = "raise"
           THEN /\ Raise(r.exc)
                /\ UNCHANGED <<facts, fact_src, dim_obj, elem_i>>
           ELSE /\ facts' = IF r.out = "fact" THEN AppendFact(facts, r.fact) ELSE facts
                /\ fact_src' = IF r.out = "fact" THEN Append(fact_src, elem_i) ELSE fact_src
                /\ dim_obj' = IF r.out = "fact"
                              THEN Append(dim_obj, DimensionsObject(Get(elems[elem_i], "contextRef")[1]))
                              ELSE dim_obj
                /\ elem_i' = elem_i + 1
                /\ UNCHANGED <<pc, raised>>
    /\ UNCHANGED <<entry, arg, listing, xbrl_files, file_i, doc, elems, contexts, result,
                   all_facts, results, file_path, calls, ret>>

\* Line 251: return facts
FactsDone ==
    /\ pc = "pf_facts"
    /\ elem_i > Len(elems)
    /\ result' = facts
    /\ pc' = "pf_return"
    /\ UNCHANGED <<entry, arg, listing, xbrl_files, file_i, doc, elems, elem_i, contexts, facts,
                   fact_src, dim_obj, all_facts, results, file_path, calls, ret, raised>>

\* Lines 253-258: the handler returns []
ExceptReturn ==
    /\ pc = "pf_except"
    /\ result' = ExceptResult(facts)
    /\ pc' = "pf_return"
    /\ UNCHANGED <<entry, arg, listing, xbrl_files, file_i, doc, elems, elem_i, contexts, facts,
                   fact_src, dim_obj, all_facts, results, file_path, calls, ret, raised>>

\* parse_xbrl_file returns to the caller of the call under study
ReturnFile ==
    /\ pc = "pf_return"
    /\ entry = "parse_xbrl_file"
    /\ ret' = Some(result)
    /\ pc' = "done"
    /\ UNCHANGED <<entry, arg, listing, xbrl_files, file_i, doc, elems, elem_i, contexts, facts,
                   fact_src, dim_obj, result, all_facts, results, file_path, calls, raised>>

NextParse ==
    \/ ParseTree
    \/ ContextStep
    \/ ContextsDone
    \/ FactStep
    \/ FactsDone
    \/ ExceptReturn
    \/ ReturnFile

SpecParse == InitParse /\ [][NextParse]_vars

\* parse_xbrl_file on documents that vary the period of a context
InitPeriod == InitParseOver(PoolPeriod)

SpecPeriod == InitPeriod /\ [][NextParse]_vars

\* parse_xbrl_file on documents that vary the segment of a context
InitDim == InitParseOver(PoolDim)

SpecDim == InitDim /\ [][NextParse]_vars

\* ------------------------------------------- properties of parse_xbrl_file

\* The facts the call returned (none before it returns).
Returned == IF ret = None THEN <<>> ELSE ret[1]

\* The ids a traversal defines: the non-empty id attributes of its context elements.
DefinedIdsIn(es) == {e.attrib.id : e \in {x \in Range(es) : IsContextElem(x)}}

DefinedIds == DefinedIdsIn(elems)

\* The element a fact came from.
SourceOf(k) == elems[fact_src[k]]

\* An element with a usable context reference: present, non-empty, defined.
HasValidRefIn(es, e) ==
    /\ "contextRef" \in DOMAIN e.attrib
    /\ e.attrib.contextRef # <<>>
    /\ e.attrib.contextRef \in DefinedIdsIn(es)

HasValidRef(e) == HasValidRefIn(elems, e)

\* C1: every fact's context_id is a key of the context map built from the same
\* document, that is the id of one of the document's context elements.
C1_ContextIdInMap ==
    /\ \A k \in 1..Len(facts) :
          facts[k].context_id \in DOMAIN contexts /\ facts[k].context_id \in DefinedIds
    /\ \A k \in 1..Len(Returned) : Returned[k].context_id \in DefinedIds

\* C1 witness: a call that returned a fact from a document that also holds an
\* element with a dangling reference.
C1_Witness ==
    /\ pc = "done"
    /\ Len(Returned) > 0
    /\ \E e \in Range(elems) : IsStr(e.tag) /\ Get(e, "contextRef") = Some(Id_C9)

\* C2: every fact's value is a non-empty trimmed string, and no fact comes from
\* an element whose text is absent, empty or only whitespace.
C2_ValueNonEmptyTrimmed ==
    \A k \in 1..Len(facts) :
        /\ facts[k].value # <<>>
        /\ facts[k].value[1] \notin Whitespace
        /\ facts[k].value[Len(facts[k].value)] \notin Whitespace
        /\ SourceOf(k).text # None
        /\ \E i \in 1..Len(SourceOf(k).text[1]) : SourceOf(k).text[1][i] \notin Whitespace

\* An element the fact loop should turn into a fact: a valid reference, not a
\* structural name, some text.
IsReportableIn(es, e) ==
    /\ IsStr(e.tag)
    /\ HasValidRefIn(es, e)
    /\ GetLocalName(e.tag)[1] \notin Range(skip_names)
    /\ e.text # None

IsReportable(e) == IsReportableIn(elems, e)

\* C3: an element whose contextRef is absent, empty or dangling yields no fact,
\* no error is raised for a document that parses, and every other reportable
\* element of the document is in the result.
C3_DanglingRefSkipped ==
    /\ \A k \in 1..Len(facts) : HasValidRef(SourceOf(k))
    /\ doc.ok => pc # "pf_except" /\ ~raised
    /\ (pc = "done" /\ doc.ok) =>
          /\ ret = Some(facts)
          /\ \A i \in 1..Len(elems) : IsReportable(elems[i]) => i \in Range(fact_src)

\* C3 witness: a returned fact whose element follows an element with a dangling
\* reference, in a document that also has an element without contextRef.
C3_Witness ==
    /\ pc = "done"
    /\ \E i, j \in 1..Len(elems) :
          /\ i < j
          /\ IsStr(elems[i].tag) /\ Get(elems[i], "contextRef") = Some(Id_C9)
          /\ j \in Range(fact_src)
    /\ Len(Returned) = 1

\* ------------------------------------------- properties of the context map

\* The context loop of the running call is over.
ContextsBuilt == pc \in {"pf_facts", "pf_return", "done"}

\* The last context element of the document that defines an id.
LastContextElem(id) ==
    LET at == {i \in 1..Len(elems) : IsContextElem(elems[i]) /\ elems[i].attrib.id = id}
    IN  elems[CHOOSE i \in at : \A j \in at : j <= i]

\* C8: when context elements share an id, the context stored under it is the
\* one built from the last of them alone, and no error is raised.
C8_LastContextWins ==
    /\ doc.ok => pc # "pf_except" /\ ~raised
    /\ ContextsBuilt =>
          /\ DOMAIN contexts = DefinedIds
          /\ \A id \in DefinedIds :
                LET later == LastContextElem(id)
                IN  /\ contexts[id] = ContextDataOf(later)
                    /\ ChildrenNamed(later, N_period) = <<>> =>
                          /\ contexts[id].period_type = None
                          /\ DOMAIN contexts[id] = {"period_type", "dimensions"}
                    /\ ChildrenNamed(later, N_entity) = <<>> =>
                          contexts[id].dimensions = EmptyDict

\* C8 witness: two context elements with one id that differ in period type and
\* in dimensions; the later one is stored, and a fact was returned.
C8_Witness ==
    /\ pc = "done"
    /\ Len(Returned) > 0
    /\ \E i, j \in 1..Len(elems) :
          /\ i < j
          /\ IsContextElem(elems[i]) /\ IsContextElem(elems[j])
          /\ elems[i].attrib.id = elems[j].attrib.id
          /\ ContextDataOf(elems[i]).period_type = Some("instant")
          /\ ContextDataOf(elems[j]).period_type = Some("duration")
          /\ ContextDataOf(elems[i]).dimensions # ContextDataOf(elems[j]).dimensions
          /\ contexts[elems[j].attrib.id] = ContextDataOf(elems[j])

\* The period element of the context a fact references: the first period child
\* of the last context element with the fact's context_id.
PeriodsOf(f) == ChildrenNamed(LastContextElem(f.context_id), N_period)

\* The trimmed text of an element, None when it has no text.
TrimmedText(e) == IF e.text = None \/ e.text = Some(<<>>) THEN None ELSE Some(Strip(e.text[1]))

\* The duration half of C9: no instant child, a startDate or an endDate child.
DurationCopied(f) ==
    LET p == PeriodsOf(f)[1]
        st == ChildrenNamed(p, N_startDate)
        en == ChildrenNamed(p, N_endDate)
        cd == contexts[f.context_id]
    IN  (ChildrenNamed(p, N_instant) = <<>> /\ (st # <<>> \/ en # <<>>)) =>
            /\ f.period_type = Some("duration")
            /\ DOMAIN f \cap {"date", "start_date", "end_date"} = {"start_date", "end_date"}
            /\ f.start_date = cd.start_date /\ f.end_date = cd.end_date
            /\ st = <<>> => f.start_date = None
            /\ en = <<>> => f.end_date = None
            /\ st # <<>> => f.start_date = TrimmedText(st[Len(st)])
            /\ en # <<>> => f.end_date = TrimmedText(en[Len(en)])

\* C9 as stated: a fact whose context's period has an instant child has
\* period_type instant and a populated date; one whose period has a startDate
\* or an endDate child and no instant has period_type duration and the
\* context's start_date and end_date.
C9_InstantDatePopulated ==
    \A k \in 1..Len(facts) :
        LET f == facts[k]
        IN  PeriodsOf(f) # <<>> =>
              /\ ChildrenNamed(PeriodsOf(f)[1], N_instant) # <<>> =>
                    /\ f.period_type = Some("instant")
                    /\ "date" \in DOMAIN f
                    /\ f.date # None
              /\ DurationCopied(f)

\* C9 amended: the date of such a fact is the trimmed text of the first instant
\* child, and None when that child has no text.
C9_InstantDateIsTrimmedText ==
    \A k \in 1..Len(facts) :
        LET f == facts[k]
        IN  PeriodsOf(f) # <<>> =>
              /\ ChildrenNamed(PeriodsOf(f)[1], N_instant) # <<>> =>
                    /\ f.period_type = Some("instant")
                    /\ DOMAIN f \cap {"date", "start_date", "end_date"} = {"date"}
                    /\ f.date = TrimmedText(ChildrenNamed(PeriodsOf(f)[1], N_instant)[1])
              /\ DurationCopied(f)

\* C9 witness: a returned fact whose date is the trimmed text of an instant
\* child that is padded and follows a startDate child.
C9_Witness ==
    /\ pc = "done"
    /\ \E k \in 1..Len(Returned) :
          /\ Returned[k].period_type = Some("instant")
          /\ Returned[k].date = Some(D_2022)
          /\ Len(ChildrenNamed(PeriodsOf(Returned[k])[1], N_startDate)) = 1

\* The members of the segment of a fact's context that have a dimension name
\* and a non-empty trimmed text, in document order.
UsableMembers(f) ==
    LET segment == FindSegment(LastContextElem(f.context_id))
        usable(m) ==
            /\ Contains(GetLocalName(m.tag)[1], N_explicitMember)
            /\ "dimension" \in DOMAIN m.attrib
            /\ m.attrib.dimension # <<>>
            /\ m.text # None
            /\ Strip(m.text[1]) # <<>>
    IN  IF segment = None THEN <<>> ELSE SelectSeq(ElemChildren(segment[1]), usable)

\* The dimension attribute of a member, resolved to its local name.
DimKey(m) == GetLocalName(StrVal(m.attrib.dimension))[1]

\* C10 as stated: for every member with dimension attribute D and trimmed text
\* M, every fact of the context has dimensions[D] = M, and dimensions has no
\* entry but for such members.
C10_EveryMemberRecorded ==
    \A k \in 1..Len(facts) :
        LET ms == UsableMembers(facts[k])
            dims == facts[k].dimensions
        IN  /\ DOMAIN dims = {DimKey(ms[i]) : i \in 1..Len(ms)}
            /\ \A i \in 1..Len(ms) : dims[DimKey(ms[i])] = Strip(ms[i].text[1])

\* C10 amended: dimensions[D] = M unless a later member of the segment has the
\* same resolved dimension name, whose text then stands.
C10_LastMemberPerDimension ==
    \A k \in 1..Len(facts) :
        LET ms == UsableMembers(facts[k])
            dims == facts[k].dimensions
        IN  /\ DOMAIN dims = {DimKey(ms[i]) : i \in 1..Len(ms)}
            /\ \A i \in 1..Len(ms) :
                  (\A j \in (i + 1)..Len(ms) : DimKey(ms[j]) # DimKey(ms[i])) =>
                      dims[DimKey(ms[i])] = Strip(ms[i].text[1])

\* C10 witness: a returned fact with the member of a dimension given as
\* {uri}SegAxis and a padded text, recorded under SegAxis with the text trimmed.
C10_Witness ==
    /\ pc = "done"
    /\ \E k \in 1..Len(Returned) :
          /\ DOMAIN Returned[k].dimensions = {Axis}
          /\ Returned[k].dimensions[Axis] = M_b
          /\ Len(UsableMembers(Returned[k])) = 1

\* ------------------------------------------------------- parse_directory

\* Line 314: what parse_directory returns when no file was found.  The
\* alternative returns nothing (None).
NoFilesResult_None == None

NoFilesResult == Some(<<>>)

\* Line 309: xbrl_files = self.find_files(directory)
FindFiles ==
    /\ pc = "pd_find"
    /\ xbrl_files' = FindXbrlFiles(DirPath, listing)
    /\ pc' = IF xbrl_files' = <<>> THEN "pd_empty" ELSE "pd_loop"
    /\ UNCHANGED <<entry, arg, listing, file_i, doc, elems, elem_i, contexts, facts, fact_src, dim_obj,
                   result, all_facts, results, file_path, calls, ret, raised>>

\* Lines 311-314: no file, return []
ReturnEmpty ==
    /\ pc = "pd_empty"
    /\ ret' = NoFilesResult
    /\ pc' = "done"
    /\ UNCHANGED <<entry, arg, listing, xbrl_files, file_i, doc, elems, elem_i, contexts, facts,
                   fact_src, dim_obj, result, all_facts, results, file_path, calls, raised>>

\* Lines 323-326: the loop takes the next file and calls parse_file on it; the
\* file's content is whatever document the file system holds for it.
NextFile ==
    /\ pc = "pd_loop"
    /\ file_i < Len(xbrl_files)
    /\ file_i' = file_i + 1
    /\ \E d \in DirDocs :
          /\ doc' = d
          /\ calls' = Append(calls, [file_path |-> xbrl_files[file_i'], doc |-> d])
    /\ file_path' = xbrl_files[file_i']
    /\ pc' = "pf_parse"
    /\ UNCHANGED <<entry, arg, listing, xbrl_files, elems, elem_i, contexts, facts, fact_src, dim_obj,
                   result, all_facts, results, ret, raised>>

\* Lines 326-329: facts = self.parse_file(file_path); all_facts.extend(facts)
ExtendFacts ==
    /\ pc = "pf_return"
    /\ entry = "parse_directory"
    /\ all_facts' = Extend(all_facts, result)
    /\ results' = Append(results, result)
    /\ pc' = "pd_loop"
    /\ UNCHANGED <<entry, arg, listing, xbrl_files, file_i, doc, elems, elem_i, contexts, facts,
                   fact_src, dim_obj, result, file_path, calls, ret, raised>>

\* Line 334: return all_facts
ReturnAll ==
    /\ pc = "pd_loop"
    /\ file_i = Len(xbrl_files)
    /\ ret' = Some(all_facts)
    /\ pc' = "done"
    /\ UNCHANGED <<entry, arg, listing, xbrl_files, file_i, doc, elems, elem_i, contexts, facts,
                   fact_src, dim_obj, result, all_facts, results, file_path, calls, raised>>

Next ==
    \/ FindFiles
    \/ ReturnEmpty
    \/ NextFile
    \/ ParseTree
    \/ ContextStep
    \/ ContextsDone
    \/ FactStep
    \/ FactsDone
    \/ ExceptReturn
    \/ ExtendFacts
    \/ ReturnAll

Spec == Init /\ [][Next]_vars

\* ------------------------------------------- properties of parse_directory

RECURSIVE Flatten(_)
Flatten(lists) == IF lists = <<>> THEN <<>> ELSE Head(lists) \o Flatten(Tail(lists))

\* How many facts a document that parses holds: its reportable elements.
ReportableCount(d) ==
    LET es == Iter(d.root)
    IN  Cardinality({i \in 1..Len(es) : IsReportableIn(es, es[i])})

\* C4: a file that fails to parse contributes no facts and does not stop the
\* batch: nothing is raised, every discovered file is parsed, and the result
\* holds all the facts of the documents that parse and nothing else.
C4_FailingFileSkipped ==
    /\ ~raised
    /\ pc = "done" =>
          /\ ret # None
          /\ Len(calls) = Len(xbrl_files)
          /\ Len(results) = Len(calls)
          /\ \A i \in 1..Len(calls) :
                IF calls[i].doc.ok
                THEN Len(results[i]) = ReportableCount(calls[i].doc)
                ELSE results[i] = <<>>
          /\ ret[1] = Flatten([i \in 1..Len(calls) |->
                                  IF calls[i].doc.ok THEN results[i] ELSE <<>>])

\* C4 witness: a batch whose first file failed to read and whose second file
\* gave facts.
C4_Witness ==
    /\ pc = "done"
    /\ Len(calls) = 2
    /\ calls[1].doc = BadDoc("OSError")
    /\ calls[2].doc.ok
    /\ ret # None /\ Len(ret[1]) > 0

\* C5: the result is the concatenation of what parse_file returned for each
\* discovered file, in discovery order, each file's facts in their own order.
C5_ConcatInDiscoveryOrder ==
    /\ pc \in {"pd_loop", "done"} =>
          /\ [i \in 1..Len(calls) |-> calls[i].file_path] = SubSeq(xbrl_files, 1, file_i)
          /\ all_facts = Flatten(results)
    /\ pc = "done" =>
          /\ ret = Some(Flatten(results))
          /\ Len(results) = Len(xbrl_files)

\* C5 witness: two files, whose facts differ, were combined.
C5_Witness ==
    /\ pc = "done"
    /\ Len(results) = 2
    /\ results[1] # <<>> /\ results[2] # <<>>
    /\ results[1] # results[2]
    /\ ret = Some(results[1] \o results[2])

\* C6: when discovery finds no file, parse_directory returns an empty sequence,
\* raises nothing and parses nothing.
C6_NoFilesEmptyResult ==
    (pc = "done" /\ xbrl_files = <<>>) => ret = Some(<<>>) /\ ~raised /\ calls = <<>>

\* C6 witness: a directory that has an entry, but no instance file.
C6_Witness == pc = "done" /\ xbrl_files = <<>> /\ listing # <<>> /\ ret = Some(<<>>)

\* ------------------------------------------------------- find_xbrl_files

FN_report1 == <<"r","e","p","o","r","t","1",".","x","b","r","l">>

FN_report_label == <<"r","e","p","o","r","t","_","l","a","b","e","l",".","x","m","l">>

FN_taxonomy_def == <<"t","a","x","o","n","o","m","y","_","d","e","f",".","x","m","l">>

FN_data5 == <<"d","a","t","a","5",".","x","m","l">>

FN_upper_lab == <<"Q","_","L","A","B","7",".","x","m","l">>

FN_undefined == <<"u","n","d","e","f","i","n","e","d",".","x","b","r","l">>

FN_hidden == <<".","s","9",".","x","m","l">>

FN_upper_ext == <<"r","2",".","X","M","L">>

FN_backup == <<"a",".","x","b","r","l",".","b","a","k">>

FN_dim == <<"d","i","m","_","3",".","x","m","l">>

FindNames ==
    {FN_report1, FN_report_label, FN_taxonomy_def, FN_data5, FN_upper_lab, FN_undefined,
     FN_hidden, FN_upper_ext, FN_backup, FN_dim}

\* find_xbrl_files(directory)
InitFind ==
    /\ entry = "find_xbrl_files"
    /\ pc = "ff_call"
    /\ arg = None
    /\ listing \in ListingsOver(FindNames, MaxDirEntries)
    /\ doc = NoDoc
    /\ InitCommon

\* Lines 20-26: the whole of find_xbrl_files
FindOnly ==
    /\ pc = "ff_call"
    /\ xbrl_files' = FindXbrlFiles(DirPath, listing)
    /\ ret' = Some(xbrl_files')
    /\ pc' = "done"
    /\ UNCHANGED <<entry, arg, listing, file_i, doc, elems, elem_i, contexts, facts, fact_src, dim_obj,
                   result, all_facts, results, file_path, calls, raised>>

NextFind == FindOnly

SpecFind == InitFind /\ [][NextFind]_vars

\* ------------------------------------------- properties of find_xbrl_files

EndsWith(s, suffix) ==
    Len(s) >= Len(suffix) /\ SubSeq(s, Len(s) - Len(suffix) + 1, Len(s)) = suffix

Ext_xbrl == <<".", "x", "b", "r", "l">>

Ext_xml == <<".", "x", "m", "l">>

\* A name the two glob patterns select: not hidden, and ending in .xbrl or in a
\* digit followed by .xml.
IsCandidateName(n) ==
    /\ n[1] # "."
    /\ \/ EndsWith(n, Ext_xbrl)
       \/ EndsWith(n, Ext_xml) /\ Len(n) > Len(Ext_xml) /\ n[Len(n) - Len(Ext_xml)] \in Digits

\* A name the exclusion rule drops.
IsExcludedName(n) ==
    \E x \in Range(ExcludedSubstrings) : Contains(Lower(n), x)

ExampleDir == {FN_report1, FN_report_label, FN_taxonomy_def, FN_data5}

\* C7: find_xbrl_files returns exactly the entries of the directory that match
\* *.xbrl or *[0-9].xml and whose lower-cased base name holds none of _lab,
\* label, dim_, def, each once, as a path in the directory; for the directory
\* of report1.xbrl, report_label.xml, taxonomy_def.xml and data5.xml these are
\* report1.xbrl and data5.xml.
C7_FindXbrlFiles ==
    pc = "done" =>
        /\ Range(xbrl_files) =
              {PathJoin(DirPath, n) :
                  n \in {m \in Range(listing) : IsCandidateName(m) /\ ~IsExcludedName(m)}}
        /\ NoRepeat(xbrl_files)
        /\ ret = Some(xbrl_files)
        /\ Range(listing) = ExampleDir =>
              Range(xbrl_files) = {PathJoin(DirPath, FN_report1), PathJoin(DirPath, FN_data5)}

\* C7 witness: the directory of the example, searched.
C7_Witness ==
    /\ pc = "done"
    /\ Range(listing) = ExampleDir
    /\ Len(xbrl_files) = 2

\* --------------------------------------------- namespace prefix resolution

P_g == <<"g">>

BindXbrli == [prefix |-> Some(P_xbrli), uri |-> U_xbrli]

\* The namespace maps of a root element, in the order of its xmlns attributes.
\* xmlns="hg" alone: the URI is bound to the default namespace, to no prefix.
NsDefaultOnly == <<BindXbrli, [prefix |-> None, uri |-> U_gaap]>>

\* xmlns="hg" xmlns:us-gaap="hg"
NsDefaultThenPrefix ==
    <<BindXbrli, [prefix |-> None, uri |-> U_gaap], [prefix |-> Some(P_gaap), uri |-> U_gaap]>>

\* xmlns:us-gaap="hg" xmlns="hg"
NsPrefixThenDefault ==
    <<BindXbrli, [prefix |-> Some(P_gaap), uri |-> U_gaap], [prefix |-> None, uri |-> U_gaap]>>

\* xmlns:us-gaap="hg" xmlns:g="hg"
NsTwoPrefixes ==
    <<BindXbrli, [prefix |-> Some(P_gaap), uri |-> U_gaap], [prefix |-> Some(P_g), uri |-> U_gaap]>>

\* No declaration of "hg" on the root element.
NsUndeclared == <<BindXbrli>>

NsMaps ==
    {StdNsmap, NsDefaultOnly, NsDefaultThenPrefix, NsPrefixThenDefault, NsTwoPrefixes,
     NsUndeclared}

\* The document of GoodDoc with the namespace declarations of the root chosen.
GoodDocNs(nsmap, children) == [GoodDoc(children) EXCEPT !.nsmap = nsmap]

\* Facts with a tag in a namespace the root may declare, in one it does not
\* declare, and in no namespace.
F_NoteC1 == FactElem(N_Note, [contextRef |-> Id_C1], Some(T_7))

F_OtherNs == FactElem(QTag(U_other, N_Note), [contextRef |-> Id_C1], Some(T_7))

PoolNs == {CtxInstantC1, F_Assets, F_NoteC1, F_OtherNs}

InitNs ==
    /\ entry = "parse_xbrl_file"
    /\ pc = "pf_parse"
    /\ arg = None
    /\ listing = <<>>
    /\ doc \in {GoodDocNs(n, s) : n \in NsMaps, s \in SeqsUpTo(PoolNs, MaxElems)} \cup ParseErrors
    /\ InitCommon

SpecNs == InitNs /\ [][NextParse]_vars

\* The namespace URI of a tag in Clark notation, "{uri}local".
UriOf(t) == SubSeq(t, 2, FirstIndex(t, "}") - 1)

\* The prefixes the namespace map binds to a URI.
PrefixesOf(nsmap, uri) ==
    {b.prefix[1] : b \in {x \in Range(nsmap) : x.uri = uri /\ x.prefix # None}}

\* C11: the prefixed concept of a fact is "prefix:local" when its tag carries a
\* namespace URI and the namespace map binds a prefix to that URI, and it is the
\* concept otherwise; resolving the prefix raises nothing.
C11_PrefixedConcept ==
    /\ doc.ok => pc # "pf_except" /\ ~raised
    /\ \A k \in 1..Len(facts) :
          LET t == SourceOf(k).tag.s
              bound == IF Contains(t, <<"}">>) THEN PrefixesOf(doc.nsmap, UriOf(t)) ELSE {}
          IN  IF bound # {}
              THEN \E p \in bound : facts[k].prefixed_concept = p \o <<":">> \o facts[k].concept
              ELSE facts[k].prefixed_concept = facts[k].concept

\* What the code does: the first binding of the URI decides, and a binding to
\* the default namespace gives the bare local name.
C11_FirstBindingDecides ==
    \A k \in 1..Len(facts) :
        LET t == SourceOf(k).tag.s
            hits == IF Contains(t, <<"}">>)
                    THEN SelectSeq(doc.nsmap, LAMBDA b : b.uri = UriOf(t))
                    ELSE <<>>
        IN  IF hits # <<>> /\ hits[1].prefix # None
            THEN facts[k].prefixed_concept = hits[1].prefix[1] \o <<":">> \o facts[k].concept
            ELSE facts[k].prefixed_concept = facts[k].concept

\* ------------------------------------------------------ the worked example

\* The fact the example document of the specification yields.
ExampleFact ==
    [concept |-> N_Assets,
     prefixed_concept |-> P_gaap \o <<":">> \o N_Assets,
     value |-> T_1000,
     unit |-> Some(USD),
     context_id |-> Id_C1,
     period_type |-> Some("instant"),
     date |-> Some(D_2023),
     dimensions |-> EmptyDict]

\* C12: the document with the one context C1 (instant 2023-12-31) and the one
\* fact element us-gaap:Assets (contextRef C1, text 1000, unitRef USD) yields
\* exactly one fact, with the eight fields of ExampleFact and no other field.
C12_ExampleDocument ==
    (pc = "done" /\ doc = DocAssets) =>
        /\ ~raised
        /\ ret = Some(<<ExampleFact>>)
        /\ DOMAIN ret[1][1] =
              {"concept", "prefixed_concept", "value", "unit", "context_id", "period_type",
               "date", "dimensions"}

C12_Witness ==
    /\ pc = "done"
    /\ doc = DocAssets
    /\ Len(Returned) = 1
    /\ Returned[1].concept = N_Assets

\* ---------------------------------------------------------- get_local_name

MaxTagLen == 4

\* The characters of the string arguments: the two braces of the Clark
\* notation and two name characters.
TagAlphabet == {"{", "}", "a", "b"}

StrTags == {StrVal(s) : s \in SeqsUpTo(TagAlphabet, MaxTagLen)}

\* Arguments that are not strings, each with the text str() gives for it: the
\* tag of a comment and of a processing instruction (functions of lxml.etree),
\* a method object, the same function in a build of lxml whose functions are
\* built-in functions, an integer, None, a bytes object and a QName object.
PITag ==
    [kind |-> "cyfunction",
     s |-> CyFunctionPrefix \o <<" ","P","I",">">>]

MethodTag == [kind |-> "cython_function_or_method", s |-> CyFunctionAlt \o <<">">>]

BuiltinCommentTag ==
    [kind |-> "builtin_function_or_method",
     s |-> <<"<","b","u","i","l","t","-","i","n"," ","f","u","n","c","t","i","o","n"," ",
             "C","o","m","m","e","n","t",">">>]

IntTag == [kind |-> "int", s |-> <<"5">>]

NoneTag == [kind |-> "NoneType", s |-> <<"N","o","n","e">>]

BytesTag == [kind |-> "bytes", s |-> <<"b","'","{","a","}","b","'">>]

QNameTag == [kind |-> "QName", s |-> <<"{","a","}","b">>]

NonStrTags ==
    {CommentTag, PITag, MethodTag, BuiltinCommentTag, IntTag, NoneTag, BytesTag, QNameTag}

InitLocalName ==
    /\ entry = "get_local_name"
    /\ pc = "gl_call"
    /\ arg \in {Some(t) : t \in StrTags \cup NonStrTags}
    /\ listing = <<>>
    /\ doc = NoDoc
    /\ InitCommon

\* Lines 29-49: the call returns the value of get_local_name(tag)
CallGetLocalName ==
    /\ pc = "gl_call"
    /\ ret' = Some(GetLocalName(arg[1]))
    /\ pc' = "done"
    /\ UNCHANGED <<entry, arg, listing, xbrl_files, file_i, doc, elems, elem_i, contexts, facts,
                   fact_src, dim_obj, result, all_facts, results, file_path, calls, raised>>

NextLocalName == CallGetLocalName

SpecLocalName == InitLocalName /\ [][NextLocalName]_vars

\* The text after the last "}" of s, s itself when it has none.
AfterLastBrace(s) == SubSeq(s, LastIndex(s, "}") + 1, Len(s))

\* C13: for a string tag, get_local_name returns everything after the last "}"
\* when the tag has one and the tag unchanged otherwise, so that the result
\* never contains "}".
C13_AfterLastBrace ==
    (pc = "done" /\ IsStr(arg[1])) =>
        /\ ret[1] = Some(AfterLastBrace(arg[1].s))
        /\ ~Contains(ret[1][1], <<"}">>)

\* What the code does for a string tag: the text after the first "}".
C13_AfterFirstBrace ==
    (pc = "done" /\ IsStr(arg[1])) =>
        ret[1] = Some(SubSeq(arg[1].s, FirstIndex(arg[1].s, "}") + 1, Len(arg[1].s)))

\* str(tag) names a Cython function or method.
IsFunctionRepr(s) ==
    \/ Contains(s, <<"<","c","y","f","u","n","c","t","i","o","n">>)
    \/ Contains(s, <<"<","c","y","t","h","o","n","_","f","u","n","c","t","i","o","n","_",
                     "o","r","_","m","e","t","h","o","d">>)

\* C14 as stated: get_local_name raises nothing, and for every argument that
\* is not a string it returns None, never a string.
C14_NonStringGivesNone ==
    /\ ~raised
    /\ (pc = "done" /\ ~IsStr(arg[1])) => ret = Some(None)

\* C14: get_local_name raises nothing; for an argument that is not a string it
\* returns None when str() of the argument names a Cython function or method
\* (the tag of a comment or of a processing instruction), and str() of the
\* argument otherwise.
C14_NoneForFunctionTags ==
    /\ ~raised
    /\ (pc = "done" /\ ~IsStr(arg[1])) =>
          ret[1] = IF IsFunctionRepr(arg[1].s) THEN None ELSE Some(arg[1].s)

C14_Witness ==
    /\ pc = "done"
    /\ arg = Some(PITag)
    /\ ret = Some(None)

\* ------------------------------------------------- structural elements

StructuralNames == {N_context, N_unit, N_schemaRef, N_roleRef, N_arcroleRef}

\* C15: no fact has the concept context, unit, schemaRef, roleRef or
\* arcroleRef: an element with such a local name yields no fact, even with a
\* contextRef that resolves and with text.
C15_NoStructuralFact ==
    /\ \A k \in 1..Len(facts) : facts[k].concept \notin StructuralNames
    /\ \A k \in 1..Len(fact_src) :
          GetLocalName(SourceOf(k).tag) \notin {Some(n) : n \in StructuralNames}

C15_Witness ==
    /\ pc = "done"
    /\ \E i \in 1..Len(elems) :
          /\ elems[i] = F_Unit
          /\ HasValidRef(elems[i])
          /\ elems[i].text # None
          /\ i \notin Range(fact_src)
    /\ Len(Returned) = 1

\* ------------------------------------------- contexts across a directory

\* The last context element of a traversal that defines an id.
LastContextElemIn(es, id) ==
    LET at == {i \in 1..Len(es) : IsContextElem(es[i]) /\ es[i].attrib.id = id}
    IN  es[CHOOSE i \in at : \A j \in at : j <= i]

\* The facts of a file rest on the contexts of that file alone.
OwnContextsOnly(d, fs) ==
    LET es == Iter(d.root)
    IN  /\ Len(fs) = ReportableCount(d)
        /\ \A k \in 1..Len(fs) :
              /\ fs[k].context_id \in DefinedIdsIn(es)
              /\ LET cd == ContextDataOf(LastContextElemIn(es, fs[k].context_id))
                 IN  /\ fs[k].period_type = cd.period_type
                     /\ fs[k].dimensions = cd.dimensions
                     /\ cd.period_type = Some("instant") => fs[k].date = cd.instant
                     /\ cd.period_type = Some("duration") =>
                           /\ fs[k].start_date = DictGet(cd, "start_date")
                           /\ fs[k].end_date = DictGet(cd, "end_date")

\* C16: in a directory batch the map of contexts belongs to one document. While
\* a file is read the map holds only ids that file defines, so an element whose
\* contextRef names an id defined only in another file yields no fact, and an
\* id defined in several files resolves in each file to that file's definition.
C16_ContextsDocumentScoped ==
    /\ pc \in {"pf_contexts", "pf_facts"} => DOMAIN contexts \subseteq DefinedIdsIn(elems)
    /\ pc = "pf_facts" =>
          \A id \in DOMAIN contexts : contexts[id] = ContextDataOf(LastContextElem(id))
    /\ \A i \in 1..Len(results) :
          calls[i].doc.ok => OwnContextsOnly(calls[i].doc, results[i])

\* The second file defines C1 as a duration and refers to C2, which only the
\* first file defines: one fact, with the duration.
C16_Witness ==
    /\ pc = "done"
    /\ Len(calls) = 2
    /\ calls[1].doc = DocBothContexts
    /\ calls[2].doc = DocOwnC1
    /\ Len(results[1]) = 1 /\ results[1][1].period_type = Some("instant")
    /\ Len(results[2]) = 1 /\ results[2][1].period_type = Some("duration")

\* ------------------------------------------- exceptions inside the loops

\* Exceptions a statement of the two loops can raise whatever the document
\* holds; both are subclasses of Exception.
LoopExceptions == {"MemoryError", "RuntimeError"}

PoolFault == {CtxInstantC1, CtxDurationC2, F_Assets, F_Padded, F_Dangling}

InitFault == InitParseOver(PoolFault)

\* Lines 77-251 are inside the try block of line 63: a statement of the context
\* loop or of the fact loop raises, with the facts appended so far in facts
Fault ==
    /\ pc \in {"pf_contexts", "pf_facts"}
    /\ \E exc \in LoopExceptions : Raise(exc)
    /\ UNCHANGED <<entry, arg, listing, xbrl_files, file_i, doc, elems, elem_i, contexts, facts,
                   fact_src, dim_obj, result, all_facts, results, file_path, calls, ret>>

NextFault ==
    \/ ParseTree
    \/ ContextStep
    \/ ContextsDone
    \/ FactStep
    \/ FactsDone
    \/ ExceptReturn
    \/ ReturnFile
    \/ Fault

SpecFault == InitFault /\ [][NextFault]_vars

\* C17: parse_xbrl_file never raises. Once an exception has occurred, in the
\* parse, in the context loop or after facts were appended, the call returns
\* the empty list; what a call returns is the empty list or the complete list
\* of the document's facts, never a part of it.
C17_AllOrNothing ==
    [][ /\ ~raised'
        /\ pc = "pf_except" => result' = <<>>
        /\ pc' = "done" =>
              /\ ret' # None
              /\ ret'[1] # <<>> =>
                    /\ doc.ok
                    /\ ret'[1] = facts
                    /\ Len(facts) = ReportableCount(doc) ]_vars

\* An exception in the fact loop, after a fact was appended: the empty list.
C17_Witness ==
    /\ pc = "done"
    /\ doc.ok
    /\ elem_i <= Len(elems)
    /\ Len(facts) >= 1
    /\ ret = Some(<<>>)

\* ---------------------------------------------------------- document order

\* The fact the fact loop builds from the element at position i of the traversal.
FactOfElem(i) == FactLoopBody(contexts, elems[i], doc.nsmap).fact

\* C18: the facts are in document order. The k-th fact comes from an element
\* that follows, in the traversal, the elements of the facts before it; no
\* element gives two facts; and what is returned is that list, in that order.
C18_DocumentOrder ==
    /\ \A j, k \in 1..Len(fact_src) : j < k => fact_src[j] < fact_src[k]
    /\ Len(facts) = Len(fact_src)
    /\ pc \in {"pf_facts", "pf_return", "done"} =>
          \A k \in 1..Len(facts) : facts[k] = FactOfElem(fact_src[k])
    /\ (pc = "done" /\ doc.ok) => ret = Some(facts)

\* Two different facts were returned, with a skipped element between their
\* elements.
C18_Witness ==
    /\ pc = "done"
    /\ Len(Returned) = 2
    /\ Returned[1] # Returned[2]
    /\ fact_src[2] > fact_src[1] + 1

\* ------------------------------------------------- the period of a context

PeriodKeys == {"instant", "start_date", "end_date"}

\* C19: in the period of a context an instant child decides, wherever it
\* stands among the children: the stored context is an instant with the trimmed
\* text of that child, and no start or end date is read. A period without an
\* instant child is stored as a duration, from its startDate and endDate.
C19_InstantTakesPrecedence ==
    (ContextsBuilt /\ doc.ok) =>
        \A id \in DOMAIN contexts :
            LET periods == ChildrenNamed(LastContextElem(id), N_period)
                cd == contexts[id]
            IN  periods # <<>> =>
                  LET instants == ChildrenNamed(periods[1], N_instant)
                  IN  IF instants # <<>>
                      THEN /\ cd.period_type = Some("instant")
                           /\ DOMAIN cd \cap PeriodKeys = {"instant"}
                           /\ cd.instant = TrimmedText(instants[1])
                      ELSE /\ cd.period_type = Some("duration")
                           /\ DOMAIN cd \cap PeriodKeys = {"start_date", "end_date"}

\* The context stored for a period whose instant child stands before a
\* startDate and an endDate child.
C19_Witness ==
    /\ pc = "pf_facts"
    /\ Id_C1 \in DOMAIN contexts
    /\ LastContextElem(Id_C1) = P_InstantThenDates
    /\ contexts[Id_C1].period_type = Some("instant")
    /\ contexts[Id_C1].instant = Some(D_2022)

\* C20: a context with a non-empty id and no period child is stored all the
\* same, with period_type unset and no instant, start or end date; an element
\* that refers to it still gives a fact, whose period_type is unset and whose
\* date fields hold nothing.
C20_ContextWithoutPeriod ==
    (ContextsBuilt /\ doc.ok) =>
        /\ \A i \in 1..Len(elems) :
              IsContextElem(elems[i]) => elems[i].attrib.id \in DOMAIN contexts
        /\ \A id \in DOMAIN contexts :
              ChildrenNamed(LastContextElem(id), N_period) = <<>> =>
                  /\ contexts[id].period_type = None
                  /\ DOMAIN contexts[id] \cap PeriodKeys = {}
        /\ \A k \in 1..Len(facts) :
              PeriodsOf(facts[k]) = <<>> =>
                  /\ facts[k].period_type = None
                  /\ \A key \in DOMAIN facts[k] \cap {"date", "start_date", "end_date"} :
                        facts[k][key] = None
        /\ pc = "done" =>
              \A i \in 1..Len(elems) : IsReportable(elems[i]) => i \in Range(fact_src)

\* A returned fact whose context has no period child.
C20_Witness ==
    /\ pc = "done"
    /\ \E k \in 1..Len(Returned) :
          /\ LastContextElem(Returned[k].context_id) = P_NoPeriod
          /\ Returned[k].period_type = None
          /\ Returned[k].value = T_1000

\* ------------------------------------------- the dimensions of the facts

PoolShare == {P_Instant, CtxDurationC2, F_Assets, F_Blank, F_Padded}

InitShare == InitParseOver(PoolShare)

\* What a holder of dictionary object obj sees after the write d[key] = value
\* through the object written: the write shows in every reference to it.
Written(obj, d, written, key, value) == IF obj = written THEN DictSet(d, key, value) ELSE d

\* The caller of parse_xbrl_file runs fact['dimensions'][key] = value on one
\* of the facts it got. facts, result and the returned list are one list of
\* the same fact dictionaries, and the dictionaries of contexts stay alive
\* through the facts that refer to them.
ConsumerSetsDimension ==
    /\ pc = "done"
    /\ entry = "parse_xbrl_file"
    /\ \E k \in 1..Len(Returned) :
          LET after(fs) ==
                  [j \in 1..Len(fs) |->
                      [fs[j] EXCEPT !.dimensions = Written(dim_obj[j], @, dim_obj[k], Axis2, M_b)]]
          IN  /\ ret' = Some(after(ret[1]))
              /\ facts' = after(facts)
              /\ result' = after(result)
              /\ contexts' = [id \in DOMAIN contexts |->
                                 [contexts[id] EXCEPT
                                     !.dimensions = Written(id, @, dim_obj[k], Axis2, M_b)]]
    /\ pc' = "consumed"
    /\ UNCHANGED <<entry, arg, listing, xbrl_files, file_i, doc, elems, elem_i, fact_src,
                   dim_obj, all_facts, results, file_path, calls, raised>>

NextShare ==
    \/ ParseTree
    \/ ContextStep
    \/ ContextsDone
    \/ FactStep
    \/ FactsDone
    \/ ExceptReturn
    \/ ReturnFile
    \/ ConsumerSetsDimension

SpecShare == InitShare /\ [][NextShare]_vars

\* C21: each fact has its own copy of its context's dimensions. When a consumer
\* changes the dimensions of one fact, the dimensions of no other fact change,
\* and the mapping of no context changes.
C21_IndependentDimensions ==
    [][ pc' = "consumed" =>
          /\ Cardinality({j \in 1..Len(ret[1]) :
                             ret'[1][j].dimensions # ret[1][j].dimensions}) <= 1
          /\ \A id \in DOMAIN contexts : contexts'[id].dimensions = contexts[id].dimensions
      ]_vars

\* What the code gives: the facts of one context refer to one dictionary, the
\* one of the context, so they stay equal to each other and to it.
C21_SharedDimensions ==
    pc \in {"done", "consumed"} =>
        \A k \in 1..Len(Returned) :
            /\ dim_obj[k] = Returned[k].context_id
            /\ Returned[k].dimensions = contexts[Returned[k].context_id].dimensions

\* ------------------------------------- contexts are built before the facts

\* The period and dimension data of a fact are those of context data cd.
CarriesContext(f, cd) ==
    /\ f.period_type = cd.period_type
    /\ f.dimensions = cd.dimensions
    /\ IF cd.period_type = Some("instant")
       THEN f.date = cd.instant
       ELSE /\ f.start_date = DictGet(cd, "start_date")
            /\ f.end_date = DictGet(cd, "end_date")

\* C22: where a context element stands relative to a fact's element does not
\* matter. No fact is extracted before the map of contexts is complete; an
\* element placed before the definition of its context still gives a fact; and
\* when an id is defined twice, every fact that refers to it, placed before,
\* between or after the definitions, carries the data of the later one.
C22_ContextsBeforeFacts ==
    /\ pc = "pf_contexts" => facts = <<>>
    /\ (pc = "pf_facts" /\ doc.ok) => DOMAIN contexts = DefinedIds
    /\ (ContextsBuilt /\ doc.ok) =>
          \A k \in 1..Len(facts) :
              CarriesContext(facts[k], ContextDataOf(LastContextElem(facts[k].context_id)))
    /\ (pc = "done" /\ doc.ok) =>
          \A i \in 1..Len(elems) : IsReportable(elems[i]) => i \in Range(fact_src)

\* A fact whose element stands between two definitions of its context that
\* differ: it carries the period type of the later one.
C22_Witness ==
    /\ pc = "done"
    /\ Len(Returned) = 1
    /\ \E i, l \in 1..Len(elems) :
          /\ i < fact_src[1] /\ fact_src[1] < l
          /\ IsContextElem(elems[i]) /\ IsContextElem(elems[l])
          /\ elems[i].attrib.id = Returned[1].context_id
          /\ elems[l].attrib.id = Returned[1].context_id
          /\ ContextDataOf(elems[i]).period_type # ContextDataOf(elems[l]).period_type
          /\ Returned[1].period_type = ContextDataOf(elems[l]).period_type

\* ------------------------------------------- identify_contexts (analyzer)

MaxRows == 4

\* Context ids of the rows of a DataFrame of facts: one that matches 'actual'
\* but for its case, one that matches 'prior', one that matches 'ytd', one that
\* matches 'ytd' and 'ytd.*prev', and C1, C2, C9, which match no pattern.
Id_Actual == <<"A","c","t","u","a","l">>

Id_prior == <<"p","r","i","o","r">>

Id_ytd == <<"y","t","d">>

Id_ytd_prev == <<"y","t","d","_","p","r","e","v">>

RowIds == {Id_Actual, Id_prior, Id_ytd, Id_ytd_prev, Id_C1, Id_C2, Id_C9}

\* A pattern is the sequence of the literal texts that '.*' separates in it.
Lit(s) == <<s>>

\* The roles and their patterns, in the order of the dictionary.
period_patterns ==
    << [role |-> "current_period",
        patterns |-> << Lit(<<"c","i","e","r","r","e">>), Lit(<<"a","c","t","u","a","l">>),
                        Lit(<<"c","o","r","r","i","e","n","t","e">>),
                        Lit(<<"c","u","r","r","e","n","t">>),
                        Lit(<<"p","r","e","s","e","n","t">>) >>],
       [role |-> "previous_period",
        patterns |-> << Lit(<<"a","n","t","e","r","i","o","r">>), Lit(<<"p","r","e","v","i","o">>),
                        Lit(<<"p","r","e","v","i","o","u","s">>), Lit(<<"p","r","i","o","r">>) >>],
       [role |-> "current_year_accumulated",
        patterns |-> << Lit(<<"a","c","u","m","u","l","a","d","o">>), Lit(<<"y","t","d">>),
                        Lit(<<"a","c","c","u","m","u","l","a","t","e","d">>) >>],
       [role |-> "previous_year_accumulated",
        patterns |-> << <<(<<"a","c","u","m","u","l","a","d","o">>),
                          (<<"a","n","t","e","r","i","o","r">>)>>,
                        <<(<<"y","t","d">>), (<<"p","r","e","v">>)>> >>] >>

\* re.search of the literal texts in order, the first one from position from on
RECURSIVE SearchFrom(_, _, _)
SearchFrom(parts, s, from) ==
    IF parts = <<>> THEN TRUE
    ELSE LET p == parts[1]
         IN  \E i \in from..(Len(s) - Len(p) + 1) :
                 /\ SubSeq(s, i, i + Len(p) - 1) = p
                 /\ SearchFrom(Tail(parts), s, i + Len(p))

\* re.search(pattern, c, re.IGNORECASE): the patterns of period_patterns are in
\* lower case, so ignoring case is lowering c
ReSearch(pattern, c) == SearchFrom(pattern, Lower(c), 1)

\* df['context_id'].unique(): the ids in the order they first appear
Unique(rows) == SelectSeq([i \in 1..Len(rows) |-> IF \E j \in 1..(i - 1) : rows[j] = rows[i]
                                                    THEN <<>> ELSE <<rows[i]>>],
                          LAMBDA o : o # <<>>)

UniqueIds(rows) == [i \in 1..Len(Unique(rows)) |-> Unique(rows)[i][1]]

\* context_counts.get(c, 0)
CountOf(rows, c) == Cardinality({i \in 1..Len(rows) : rows[i] = c})

RECURSIVE Perms(_)
Perms(S) == IF S = {} THEN {<<>>} ELSE UNION {{<<x>> \o p : p \in Perms(S \ {x})} : x \in S}

\* df['context_id'].value_counts(): the ids by falling count. The order of ids
\* of equal count is left to the sort, so every such order is an outcome.
ValueCountOrders(rows) ==
    {p \in Perms(Range(rows)) :
        \A i, j \in 1..Len(p) : i < j => CountOf(rows, p[i]) >= CountOf(rows, p[j])}

\* sorted(matching_contexts, key=count, reverse=True)[0]: the sort is stable,
\* so of the ids with the largest count the first to appear
BestMatch(matching, rows) ==
    matching[CHOOSE i \in 1..Len(matching) :
                /\ \A j \in 1..Len(matching) : CountOf(rows, matching[j]) <= CountOf(rows, matching[i])
                /\ \A j \in 1..(i - 1) : CountOf(rows, matching[j]) < CountOf(rows, matching[i])]

\* The ids a pattern matches, in the order of unique()
Matching(pattern, rows) == SelectSeq(UniqueIds(rows), LAMBDA c : ReSearch(pattern, c))

\* Lines 230-244 for one role: the best match of the first pattern that
\* matches an id, None when no pattern does
RoleByPattern(patterns, rows) ==
    LET hits == SelectSeq(patterns, LAMBDA p : Matching(p, rows) # <<>>)
    IN  IF hits = <<>> THEN None ELSE Some(BestMatch(Matching(hits[1], rows), rows))

\* Lines 230-244: context_types after the loop over period_patterns
ByPatterns(rows) ==
    LET best == [i \in 1..Len(period_patterns) |->
                    RoleByPattern(period_patterns[i].patterns, rows)]
        found == {i \in 1..Len(period_patterns) : best[i] # None}
        at(r) == CHOOSE i \in found : period_patterns[i].role = r
    IN  [r \in {period_patterns[i].role : i \in found} |-> best[at(r)][1]]

\* Lines 246-258: with fewer than two roles found, the roles still missing
\* are filled from the four most common ids, by position
Fallback(ct, most_common) ==
    IF Cardinality(DOMAIN ct) >= 2 THEN ct
    ELSE LET fill == {i \in 1..Len(period_patterns) :
                         i <= 4 /\ i <= Len(most_common) /\ period_patterns[i].role \notin DOMAIN ct}
             at(r) == CHOOSE i \in 1..Len(period_patterns) : period_patterns[i].role = r
         IN  [r \in DOMAIN ct \cup {period_patterns[i].role : i \in fill} |->
                 IF r \in DOMAIN ct THEN ct[r] ELSE most_common[at(r)]]

InitIdentify ==
    /\ entry = "identify_contexts"
    /\ pc = "ic_call"
    /\ arg \in {Some(rows) : rows \in SeqsUpTo(RowIds, MaxRows)}
    /\ listing = <<>>
    /\ doc = NoDoc
    /\ InitCommon

\* Lines 196-265: the call returns context_types
CallIdentifyContexts ==
    /\ pc = "ic_call"
    /\ LET context_types == ByPatterns(arg[1])
       IN  \E context_counts \in ValueCountOrders(arg[1]) :
               ret' = Some(Fallback(context_types, context_counts))
    /\ pc' = "done"
    /\ UNCHANGED <<entry, arg, listing, xbrl_files, file_i, doc, elems, elem_i, contexts, facts,
                   fact_src, dim_obj, result, all_facts, results, file_path, calls, raised>>

NextIdentify == CallIdentifyContexts

SpecIdentify == InitIdentify /\ [][NextIdentify]_vars

\* C23: identify_contexts gives each context id to at most one role: the ids
\* under the roles of the returned mapping are pairwise distinct.
C23_DistinctRoles ==
    (pc = "done" /\ entry = "identify_contexts") =>
        \A r1, r2 \in DOMAIN ret[1] : r1 # r2 => ret[1][r1] # ret[1][r2]

\* What holds of the result: every role names an id of the rows, and a role
\* found by a pattern names an id that pattern matches.
C23_RolesNameRowIds ==
    (pc = "done" /\ entry = "identify_contexts") =>
        /\ \A r \in DOMAIN ret[1] : ret[1][r] \in Range(arg[1])
        /\ DOMAIN ByPatterns(arg[1]) \subseteq DOMAIN ret[1]

====
